---- MODULE Spec2Model ----
(***************************************************************************)
(* DIMSEServiceProvider of pynetdicom (src/pynetdicom/DIMSEprovider.py):   *)
(* Send fragments a DIMSE primitive into P-DATA primitives and hands them  *)
(* to the DUL; Receive reassembles a DIMSE message from the P-DATA         *)
(* primitives the DUL has queued.  The DUL is run in loopback over an      *)
(* order-preserving transport: what DUL.Send is handed travels over `wire` *)
(* and is queued by the DUL's background read activity for Receive, as     *)
(* between two endpoints that run this same provider code.                 *)
(***************************************************************************)
EXTENDS Integers, Sequences, FiniteSets, TLC

(* ------------------------------ bounds --------------------------------- *)

\* messages handed to Send and not yet returned by Receive
MaxInFlight == 2

\* the clock of a Receive call stops counting here (iterations of the loop)
MaxElapsed == 2

\* over the reordering transport: Send is called while at most this many
\* fragments are on the wire, queued or in the assembly buffer
MaxPending == 1

\* echoscu: the largest --repeat given on the command line
MaxRepeat == 2

(* ------------------------------ values --------------------------------- *)

\* Python's None, and a present value, of an optional attribute
None == <<>>

Some(x) == <<x>>

\* the five service-parameter classes Send knows (DIMSEparameters)
SupportedClasses == {"C_ECHO", "C_STORE", "C_FIND", "C_GET", "C_MOVE"}

\* a service-parameter class Send has no branch for
OtherClasses == {"N_EVENT_REPORT"}

\* presentation-context IDs (odd, one byte)
ContextIDs == {1, 3}

\* negotiated maximum PDU lengths; 0 means unbounded
MaxPDULengths == {0, 2}

\* data sets: opaque byte strings
DataSets == {<<7, 8, 9>>}

\* a request carries MessageID, a response MessageIDBeingRespondedTo
Primitives ==
    { [cls |-> c, MessageID |-> m, MessageIDBeingRespondedTo |-> r, DataSet |-> d] :
        c \in SupportedClasses \cup OtherClasses,
        m \in {None, Some(1)}, r \in {None, Some(1)},
        d \in {None} \cup {Some(x) : x \in DataSets} }

\* the primitives a caller builds: exactly one of the two IDs is set
CallerPrimitives ==
    { p \in Primitives : (p.MessageID = None) # (p.MessageIDBeingRespondedTo = None) }

\* the primitives exchanged over the association of the full model: echo
\* requests and responses (no data set), store requests (with a data set)
\* and responses (without), and requests of a class Send does not know
AssociationPrimitives ==
    { p \in CallerPrimitives :
        \/ p.cls = "C_ECHO" /\ p.DataSet = None
        \/ p.cls = "C_STORE" /\ ((p.MessageID # None) <=> (p.DataSet # None))
        \/ p.cls \in OtherClasses /\ p.MessageID # None /\ p.DataSet = None }

\* the arguments of Receive: (Wait, Timeout); a timeout counts loop iterations
ReceiveArgs == { <<FALSE, None>>, <<TRUE, None>>, <<TRUE, Some(1)>> }

(* ------------------------ DIMSE messages (DIMSEmessages) --------------- *)

\* the message type of a service class and role
TypeOf(cls, isRequest) == IF isRequest THEN <<cls, "RQ">> ELSE <<cls, "RSP">>

\* value of the CommandField element of a message type
CommandField(type) ==
    LET base == CASE type[1] = "C_STORE" -> 1
                  [] type[1] = "C_GET"   -> 2
                  [] type[1] = "C_FIND"  -> 3
                  [] type[1] = "C_MOVE"  -> 4
                  [] type[1] = "C_ECHO"  -> 5
    IN IF type[2] = "RQ" THEN base ELSE base + 10

\* the message type a CommandField value stands for
MessageType(field) ==
    LET base == IF field > 10 THEN field - 10 ELSE field
        cls  == CASE base = 1 -> "C_STORE"
                  [] base = 2 -> "C_GET"
                  [] base = 3 -> "C_FIND"
                  [] base = 4 -> "C_MOVE"
                  [] base = 5 -> "C_ECHO"
                  [] OTHER    -> "Unknown"
    IN TypeOf(cls, field <= 10)

\* value of CommandDataSetType: 1 = a data set follows, 0 = none
DataSetType(ds) == IF ds = None THEN 0 ELSE 1

\* FromParams: fill the command set and the data set of a message of `type`
\* (an ID that is None is encoded as 0)
FromParams(type, prim) ==
    LET opt == IF type[2] = "RQ" THEN prim.MessageID
                                 ELSE prim.MessageIDBeingRespondedTo
        mid == IF opt = None THEN 0 ELSE opt[1]
    IN [ CommandSet |-> <<CommandField(type), mid, DataSetType(prim.DataSet)>>,
         DataSet    |-> IF prim.DataSet = None THEN <<>> ELSE prim.DataSet[1] ]

\* split a byte string into pieces of at most `maxpdulength` bytes (0: one piece)
RECURSIVE fragment(_, _)
fragment(maxpdulength, bytes) ==
    IF maxpdulength = 0 \/ Len(bytes) <= maxpdulength
    THEN <<bytes>>
    ELSE <<SubSeq(bytes, 1, maxpdulength)>>
         \o fragment(maxpdulength, SubSeq(bytes, maxpdulength + 1, Len(bytes)))

\* a P-DATA primitive carrying one PDV: context ID, control header, payload.
\* Control header: bit 0 = command fragment, bit 1 = last fragment of its set.
PData(id, isCommand, isLast, payload) ==
    [ cls |-> "P_DATA", id |-> id,
      ctrl |-> (IF isCommand THEN 1 ELSE 0) + (IF isLast THEN 2 ELSE 0),
      payload |-> payload ]

\* the P-DATA primitives of one set of a message
PDatasOf(id, isCommand, pieces) ==
    [ k \in 1..Len(pieces) |-> PData(id, isCommand, k = Len(pieces), pieces[k]) ]

\* Encode: command-set fragments, then data-set fragments if there is a data set
Encode(msg, id, maxpdulength) ==
    PDatasOf(id, TRUE, fragment(maxpdulength, msg.CommandSet))
    \o (IF msg.DataSet = <<>> THEN <<>>
        ELSE PDatasOf(id, FALSE, fragment(maxpdulength, msg.DataSet)))

(* ------------------ reassembly (DIMSEMessage.Decode, ToParams) --------- *)

\* self.message = None
NoMessage ==
    [ alloc |-> FALSE, EncodedCommandSet |-> <<>>, EncodedDataSet |-> <<>>,
      cmdLast |-> FALSE, dataLast |-> FALSE, ID |-> 0 ]

\* DIMSEMessage(): an empty assembly buffer
DIMSEMessage == [ NoMessage EXCEPT !.alloc = TRUE ]

\* the command fields say whether a data set follows the command set
ExpectsDataSet(m) ==
    Len(m.EncodedCommandSet) >= 3 /\ m.EncodedCommandSet[3] # 0

\* both sets of the message are complete
IsComplete(m) == m.cmdLast /\ (ExpectsDataSet(m) => m.dataLast)

\* Decode: append the PDV of a P-DATA primitive to its set and note a
\* last-fragment flag; anything else (None included) adds nothing.
\* Returns whether the message is complete, and the buffer.
Decode(m, pdata) ==
    IF pdata.cls # "P_DATA" THEN [ complete |-> FALSE, msg |-> m ]
    ELSE LET isCommand == pdata.ctrl % 2 = 1
             isLast    == pdata.ctrl >= 2
             m1 == [ m EXCEPT
                       !.ID = pdata.id,
                       !.EncodedCommandSet = IF isCommand THEN @ \o pdata.payload ELSE @,
                       !.EncodedDataSet    = IF isCommand THEN @ ELSE @ \o pdata.payload,
                       !.cmdLast  = @ \/ (isCommand /\ isLast),
                       !.dataLast = @ \/ (~isCommand /\ isLast) ]
         IN [ complete |-> IsComplete(m1), msg |-> m1 ]

\* no primitive (the parameters of a call that returned none)
NoPrimitive ==
    [ cls |-> "None", MessageID |-> None, MessageIDBeingRespondedTo |-> None,
      DataSet |-> None ]

\* element k of an assembled command set (0 when the bytes end before it)
Element(bytes, k) == IF k <= Len(bytes) THEN bytes[k] ELSE 0

\* ToParams: the service primitive of an assembled message
ToParams(m) ==
    LET type == MessageType(Element(m.EncodedCommandSet, 1))
        mid  == Some(Element(m.EncodedCommandSet, 2))
    IN [ cls |-> type[1],
         MessageID |-> IF type[2] = "RQ" THEN mid ELSE None,
         MessageIDBeingRespondedTo |-> IF type[2] = "RQ" THEN None ELSE mid,
         DataSet |-> IF ExpectsDataSet(m) THEN Some(m.EncodedDataSet) ELSE None ]

(* ------------------------------ the DUL -------------------------------- *)

\* what Peek and Receive report when no primitive is ready
NonePrimitive == [ cls |-> "None", id |-> 0, ctrl |-> 0, payload |-> <<>> ]

\* a primitive that is not P-DATA: the peer released or aborted
Event(cls) == [ cls |-> cls, id |-> 0, ctrl |-> 0, payload |-> <<>> ]

EventClasses == {"A_RELEASE", "A_ABORT"}

\* DUL.Peek(): the next primitive, left in the queue
DULPeek(q) == IF q = <<>> THEN NonePrimitive ELSE Head(q)

\* DUL.Receive(): the next primitive, taken from the queue (None if none is ready)
DULReceive(q) ==
    IF q = <<>> THEN [ primitive |-> NonePrimitive, queue |-> q ]
    ELSE [ primitive |-> Head(q), queue |-> Tail(q) ]

\* DUL.Send(pp): the primitive goes onto the transport, behind the earlier ones
DULSend(w, pp) == Append(w, pp)

(* ------------------------------ state ---------------------------------- *)

VARIABLES
    maxpdu,     \* the association's negotiated maximum PDU length
    message,    \* self.message: the assembly buffer
    wire,       \* P-DATA primitives handed to DUL.Send, not yet read by the peer DUL
    queue,      \* the DUL's queue of received primitives
    closed,     \* a release or abort has been queued: the DUL reads no more
    pc,         \* the caller: "idle", "send", "peek", "recv", "ret"
    primitive,  \* Send: its primitive argument
    dimse_msg,  \* Send: type of the message selected
    pdatas,     \* Send: the encoded fragments
    ii,         \* Send: fragments handed to the DUL so far
    Wait,       \* Receive: its Wait argument
    Timeout,    \* Receive: its Timeout argument
    elapsed,    \* Receive: loop iterations (each sleeps) since the call
    ret,        \* the value the call returned
    retLine,    \* the source line the call returned from
    handed,     \* history: the primitives this Send call gave to DUL.Send
    deq,        \* history: the primitives this Receive call took from the DUL
    fed,        \* history: the P-DATA primitives fed to the assembly buffer
    inflight,   \* history: <<primitive, id>> given to Send, not yet returned by Receive
    args,       \* echoscu: the parsed command line
    level,      \* echoscu: the logger's level
    handlers,   \* echoscu: the logger's handlers
    assoc,      \* echoscu: the association request_association returned
    line,       \* echoscu: the line the script is at, 0 when it is not running
    callLog,    \* echoscu history: the calls made on assoc and ae
    raised      \* echoscu: the exception that ended the script

vars ==
    << maxpdu, message, wire, queue, closed, pc, primitive, dimse_msg, pdatas,
       ii, Wait,
       Timeout, elapsed, ret, retLine, handed, deq, fed, inflight,
       args, level, handlers, assoc, line, callLog, raised >>

\* the state of the echoscu script
script == << args, level, handlers, assoc, line, callLog, raised >>

\* the state of the DIMSE provider and its DUL
provider ==
    << maxpdu, message, wire, queue, closed, pc, primitive, dimse_msg, pdatas,
       ii, Wait, Timeout, elapsed, ret, retLine, handed, deq, fed, inflight >>

sendLocals == << primitive, dimse_msg, pdatas, ii >>

recvLocals == << Wait, Timeout, elapsed >>

\* values a call returns
NoReturn == [ kind |-> "unset", params |-> NoPrimitive, id |-> 0 ]

ReturnsNone == [ kind |-> "None", params |-> NoPrimitive, id |-> 0 ]

NoneNone == [ kind |-> "NoneNone", params |-> NoPrimitive, id |-> 0 ]

Raises == [ kind |-> "UnboundLocalError", params |-> NoPrimitive, id |-> 0 ]

Result(params, id) == [ kind |-> "result", params |-> params, id |-> id ]

Unbound == <<"unbound", "unbound">>

\* echoscu is not running: no command line, no association
NoArgs == [ repeat |-> None, abort |-> FALSE, quiet |-> FALSE, verbose |-> FALSE, debug |-> FALSE ]

NoAssociation == [ Established |-> FALSE ]

Init ==
    /\ maxpdu \in MaxPDULengths
    /\ message = NoMessage
    /\ wire = <<>>
    /\ queue = <<>>
    /\ closed = FALSE
    /\ pc = "idle"
    /\ primitive = NoPrimitive
    /\ dimse_msg = Unbound
    /\ pdatas = <<>>
    /\ ii = 0
    /\ Wait = FALSE
    /\ Timeout = None
    /\ elapsed = 0
    /\ ret = NoReturn
    /\ retLine = 0
    /\ handed = <<>>
    /\ deq = <<>>
    /\ fed = <<>>
    /\ inflight = <<>>
    /\ args = NoArgs
    /\ level = "ERROR"
    /\ handlers = <<"stream">>
    /\ assoc = NoAssociation
    /\ line = 0
    /\ callLog = <<>>
    /\ raised = None

(* ------------------------------ Send ----------------------------------- *)

\* SelectMessage with the role test of the C-GET branch inverted
SelectMessage_GetInverted(prim) ==
    LET pick(cls, before) ==
            IF prim.cls = cls
            THEN (IF (prim.MessageID # None) # (cls = "C_GET") THEN TypeOf(cls, TRUE)
                                                               ELSE TypeOf(cls, FALSE))
            ELSE before
    IN pick("C_MOVE", pick("C_GET", pick("C_FIND", pick("C_STORE", pick("C_ECHO", Unbound)))))

\* SelectMessage with the chain ending in an else branch: any other class
\* is sent as a C-ECHO message
SelectMessage_Default(prim) ==
    LET pick(cls, before) ==
            IF prim.cls = cls \/ (cls = "C_ECHO" /\ prim.cls \notin SupportedClasses)
            THEN (IF prim.MessageID # None THEN TypeOf(cls, TRUE)
                                            ELSE TypeOf(cls, FALSE))
            ELSE before
    IN pick("C_MOVE", pick("C_GET", pick("C_FIND", pick("C_STORE", pick("C_ECHO", Unbound)))))

\* lines 27-51: the chain of class tests, each choosing RQ or RSP by MessageID
SelectMessage(prim) ==
    LET pick(cls, before) ==
            IF prim.cls = cls
            THEN (IF prim.MessageID # None THEN TypeOf(cls, TRUE)
                                                ELSE TypeOf(cls, FALSE))
            ELSE before
        m1 == pick("C_ECHO", Unbound)
        m2 == pick("C_STORE", m1)
        m3 == pick("C_FIND", m2)
        m4 == pick("C_GET", m3)
        m5 == pick("C_MOVE", m4)
    IN m5

\* HandOff that puts the fragment in front of those handed off before
HandOff_InFront(w, pp) == <<pp>> \o w

\* lines 57-59: one turn of the loop hands pdatas[ii] to DUL.Send
HandOff(w, pp) == DULSend(w, pp)

\* LoopItem that hands off the first fragment in every turn
LoopItem_First(ps, k) == ps[1]

\* the fragment the loop hands off in its turn number k (counted from 1)
LoopItem(ps, k) == ps[k]

\* Send(primitive, id, maxpdulength), lines 24-56: select the message type,
\* fill it from the primitive and encode it.  With no type selected,
\* line 52 reads an unbound dimse_msg and the call raises.
SendCall(prim, id) ==
    /\ pc = "idle"
    /\ Len(inflight) < MaxInFlight
    /\ primitive' = prim
    /\ LET type == SelectMessage(prim)
       IN IF type = Unbound
          THEN /\ pc' = "ret"
               /\ ret' = Raises
               /\ retLine' = 52
               /\ UNCHANGED << dimse_msg, pdatas, ii, inflight >>
          ELSE /\ dimse_msg' = type
               /\ pdatas' = Encode(FromParams(type, prim), id, maxpdu)
               /\ ii' = 0
               /\ pc' = "send"
               /\ inflight' = Append(inflight, <<prim, id>>)
               /\ UNCHANGED << ret, retLine >>
    /\ handed' = <<>>
    /\ UNCHANGED << maxpdu, message, wire, queue, closed, recvLocals, deq, fed >>
    /\ UNCHANGED script

\* SendStep that also throws away the message being assembled
SendStep_ClearsMessage ==
    /\ pc = "send"
    /\ ii < Len(pdatas)
    /\ wire' = HandOff(wire, LoopItem(pdatas, ii + 1))
    /\ handed' = Append(handed, LoopItem(pdatas, ii + 1))
    /\ ii' = ii + 1
    /\ message' = NoMessage
    /\ IF ii + 1 = Len(pdatas)
       THEN pc' = "ret" /\ ret' = ReturnsNone /\ retLine' = 60
       ELSE UNCHANGED << pc, ret, retLine >>
    /\ UNCHANGED << maxpdu, queue, closed, primitive, dimse_msg, pdatas,
                    recvLocals, deq, fed, inflight >>
    /\ UNCHANGED script

\* lines 57-60: hand the next fragment to the DUL; after the last one, return
SendStep ==
    /\ pc = "send"
    /\ ii < Len(pdatas)
    /\ wire' = HandOff(wire, LoopItem(pdatas, ii + 1))
    /\ handed' = Append(handed, LoopItem(pdatas, ii + 1))
    /\ ii' = ii + 1
    /\ IF ii + 1 = Len(pdatas)
       THEN pc' = "ret" /\ ret' = ReturnsNone /\ retLine' = 60
       ELSE UNCHANGED << pc, ret, retLine >>
    /\ UNCHANGED << maxpdu, message, queue, closed, primitive, dimse_msg, pdatas,
                    recvLocals, deq, fed, inflight >>
    /\ UNCHANGED script

(* ------------------------------ Receive -------------------------------- *)

\* line 71: one more iteration has slept.  The clock runs for the calls
\* that were given a timeout, and stops counting at MaxElapsed.
Tick(t, timeout) == IF timeout # None /\ t < MaxElapsed THEN t + 1 ELSE t

\* Allocate without the test of line 64: every call starts a fresh buffer
Allocate_Always(m) == DIMSEMessage

\* lines 64-65: a fresh buffer unless a message is being assembled
Allocate(m) == IF ~m.alloc THEN DIMSEMessage ELSE m

\* AfterComplete without the reset of lines 79 and 89
AfterComplete_Keep(tmp) == tmp

\* lines 78-79 and 88-89: the buffer self.message is left with on completion
AfterComplete(tmp) == NoMessage

\* lines 81 and 91: the value returned for the completed message tmp
Completed(tmp) == Result(ToParams(tmp), tmp.ID)

\* Receive(Wait, Timeout), lines 62-66
ReceiveCall(W, T) ==
    /\ pc = "idle"
    /\ message' = Allocate(message)
    /\ Wait' = W
    /\ Timeout' = T
    /\ elapsed' = 0
    /\ pc' = "peek"
    /\ deq' = <<>>
    /\ UNCHANGED << maxpdu, wire, queue, closed, sendLocals, ret, retLine,
                    handed, fed, inflight >>
    /\ UNCHANGED script

\* ReturnNotPData that takes the primitive off the queue and drops it
ReturnNotPData_Consumes ==
    /\ pc' = "ret"
    /\ ret' = NoneNone
    /\ retLine' = IF Wait THEN 76 ELSE 86
    /\ queue' = Tail(queue)
    /\ UNCHANGED << message, elapsed, deq, fed >>

\* lines 75-76 and 84-86: the next primitive is not P-DATA: return (None, None)
ReturnNotPData ==
    /\ pc' = "ret"
    /\ ret' = NoneNone
    /\ retLine' = IF Wait THEN 76 ELSE 86
    /\ UNCHANGED << message, queue, elapsed, deq, fed >>

\* lines 73-74: nothing is ready: sleep and peek again
Continue ==
    /\ elapsed' = Tick(elapsed, Timeout)
    /\ UNCHANGED << pc, ret, retLine, message, queue, deq, fed >>

\* lines 71-76 (Wait) and 83-86: look at the next primitive without taking it
PeekStep ==
    /\ pc = "peek"
    /\ LET nxt == DULPeek(queue)
       IN IF Wait
          THEN IF nxt.cls = "None" THEN Continue
               ELSE IF nxt.cls # "P_DATA" THEN ReturnNotPData
               ELSE /\ pc' = "recv"
                    /\ UNCHANGED << ret, retLine, message, queue, elapsed, deq, fed >>
          ELSE IF nxt.cls \notin {"None", "P_DATA"} THEN ReturnNotPData
               ELSE /\ pc' = "recv"
                    /\ UNCHANGED << ret, retLine, message, queue, elapsed, deq, fed >>
    /\ UNCHANGED << maxpdu, wire, closed, sendLocals, Wait, Timeout, handed, inflight >>
    /\ UNCHANGED script

\* RecvStep whose Wait=False path peeks again instead of returning from
\* line 93 when the message is not complete
RecvStep_Retries ==
    /\ pc = "recv"
    /\ LET got == DULReceive(queue)
           dec == Decode(message, got.primitive)
       IN /\ queue' = got.queue
          /\ deq' = Append(deq, got.primitive)
          /\ fed' = IF got.primitive.cls = "P_DATA" THEN Append(fed, got.primitive) ELSE fed
          /\ IF dec.complete
             THEN /\ message' = AfterComplete(dec.msg)
                  /\ ret' = Completed(dec.msg)
                  /\ retLine' = IF Wait THEN 81 ELSE 91
                  /\ pc' = "ret"
                  /\ UNCHANGED elapsed
             ELSE /\ message' = dec.msg
                  /\ pc' = "peek"
                  /\ elapsed' = Tick(elapsed, Timeout)
                  /\ UNCHANGED << ret, retLine >>
    /\ UNCHANGED << maxpdu, wire, closed, sendLocals, Wait, Timeout, handed, inflight >>
    /\ UNCHANGED script

\* RecvStep that, having completed a message, also takes the primitive
\* queued behind the one that completed it
RecvStep_Drains ==
    /\ pc = "recv"
    /\ LET got == DULReceive(queue)
           dec == Decode(message, got.primitive)
       IN /\ deq' = Append(deq, got.primitive)
          /\ fed' = IF got.primitive.cls = "P_DATA" THEN Append(fed, got.primitive) ELSE fed
          /\ IF dec.complete
             THEN /\ message' = AfterComplete(dec.msg)
                  /\ queue' = DULReceive(got.queue).queue
                  /\ ret' = Completed(dec.msg)
                  /\ retLine' = IF Wait THEN 81 ELSE 91
                  /\ pc' = "ret"
                  /\ UNCHANGED elapsed
             ELSE /\ message' = dec.msg
                  /\ queue' = got.queue
                  /\ IF Wait
                     THEN /\ pc' = "peek"
                          /\ elapsed' = Tick(elapsed, Timeout)
                          /\ UNCHANGED << ret, retLine >>
                     ELSE /\ pc' = "ret"
                          /\ ret' = NoneNone
                          /\ retLine' = 93
                          /\ UNCHANGED elapsed
    /\ UNCHANGED << maxpdu, wire, closed, sendLocals, Wait, Timeout, handed, inflight >>
    /\ UNCHANGED script

\* lines 77-81 (Wait) and 87-93: take the next primitive from the DUL and
\* decode it; return the message if it is complete, else loop or return
RecvStep ==
    /\ pc = "recv"
    /\ LET got == DULReceive(queue)
           dec == Decode(message, got.primitive)
       IN /\ queue' = got.queue
          /\ deq' = Append(deq, got.primitive)
          /\ fed' = IF got.primitive.cls = "P_DATA" THEN Append(fed, got.primitive) ELSE fed
          /\ IF dec.complete
             THEN /\ message' = AfterComplete(dec.msg)
                  /\ ret' = Completed(dec.msg)
                  /\ retLine' = IF Wait THEN 81 ELSE 91
                  /\ pc' = "ret"
                  /\ UNCHANGED elapsed
             ELSE /\ message' = dec.msg
                  /\ IF Wait
                     THEN /\ pc' = "peek"
                          /\ elapsed' = Tick(elapsed, Timeout)
                          /\ UNCHANGED << ret, retLine >>
                     ELSE /\ pc' = "ret"
                          /\ ret' = NoneNone
                          /\ retLine' = 93
                          /\ UNCHANGED elapsed
    /\ UNCHANGED << maxpdu, wire, closed, sendLocals, Wait, Timeout, handed, inflight >>
    /\ UNCHANGED script

(* ------------------------------ the caller ----------------------------- *)

\* the caller takes the value returned; the histories of the call end here
Return ==
    /\ pc = "ret"
    /\ pc' = "idle"
    /\ ret' = NoReturn
    /\ retLine' = 0
    /\ primitive' = NoPrimitive
    /\ dimse_msg' = Unbound
    /\ pdatas' = <<>>
    /\ ii' = 0
    /\ Wait' = FALSE
    /\ Timeout' = None
    /\ elapsed' = 0
    /\ handed' = <<>>
    /\ deq' = <<>>
    /\ fed' = IF message.alloc THEN fed ELSE <<>>
    /\ inflight' = IF ret.kind = "result" /\ inflight # <<>> THEN Tail(inflight) ELSE inflight
    /\ UNCHANGED << maxpdu, message, wire, queue, closed >>
    /\ UNCHANGED script

(* ----------------------- the DUL's background activity ----------------- *)

\* the DUL reads the next P-DATA off the transport and queues it
DULRead ==
    /\ ~closed
    /\ wire # <<>>
    /\ queue' = Append(queue, Head(wire))
    /\ wire' = Tail(wire)
    /\ UNCHANGED << maxpdu, message, closed, pc, sendLocals, recvLocals, ret,
                    retLine, handed, deq, fed, inflight >>
    /\ UNCHANGED script

\* the peer releases or aborts (or the transport closes): the DUL queues the
\* primitive and the association carries no more data
DULEvent(cls) ==
    /\ ~closed
    /\ closed' = TRUE
    /\ queue' = Append(queue, Event(cls))
    /\ UNCHANGED << maxpdu, message, wire, pc, sendLocals, recvLocals, ret,
                    retLine, handed, deq, fed, inflight >>
    /\ UNCHANGED script

Next ==
    \/ \E p \in AssociationPrimitives, id \in ContextIDs : SendCall(p, id)
    \/ SendStep
    \/ \E a \in ReceiveArgs : ReceiveCall(a[1], a[2])
    \/ PeekStep
    \/ RecvStep
    \/ Return
    \/ DULRead
    \/ \E c \in EventClasses : DULEvent(c)

Spec == Init /\ [][Next]_vars

\* the caller only sends, primitives of every class and role; the peer
\* takes nothing off the transport
NextSend ==
    \/ \E p \in CallerPrimitives, id \in ContextIDs : SendCall(p, id)
    \/ SendStep
    \/ Return

SpecSend == Init /\ [][NextSend]_vars

\* a transport that does not keep the order: the DUL queues the fragment
\* that is number k on the wire
DULReadAny(k) ==
    /\ ~closed
    /\ k \in 1..Len(wire)
    /\ queue' = Append(queue, wire[k])
    /\ wire' = SubSeq(wire, 1, k - 1) \o SubSeq(wire, k + 1, Len(wire))
    /\ UNCHANGED << maxpdu, message, closed, pc, sendLocals, recvLocals, ret,
                    retLine, handed, deq, fed, inflight >>
    /\ UNCHANGED script

\* the caller sends the next message when few fragments are left over
SendCallFew(prim, id) ==
    /\ Len(wire) + Len(queue) + Len(fed) <= MaxPending
    /\ SendCall(prim, id)

\* the provider fed fragments out of their transmission order
NextReorder ==
    \/ \E p \in AssociationPrimitives, id \in ContextIDs : SendCallFew(p, id)
    \/ SendStep
    \/ \E a \in ReceiveArgs : ReceiveCall(a[1], a[2])
    \/ PeekStep
    \/ RecvStep
    \/ Return
    \/ \E k \in 1..Len(wire) : DULReadAny(k)

SpecReorder == Init /\ [][NextReorder]_vars

(* ------------------------------ echoscu -------------------------------- *)

\* lines 48-56 and 98-103: --repeat has type=int and no default, so it is an
\* int or None; --abort, --quiet, --verbose and --debug are store_true flags
CommandLines ==
    [ repeat : {None} \cup { Some(n) : n \in 0..MaxRepeat },
      abort : BOOLEAN, quiet : BOOLEAN, verbose : BOOLEAN, debug : BOOLEAN ]

\* line 220, `for ii in v`: None and an int are not iterable, the statement
\* raises TypeError; a sequence gives one turn of the loop per item
ForLoopOver(v) ==
    IF v = None \/ (Len(v) = 1 /\ v[1] \in Int)
    THEN [ raises |-> TRUE, turns |-> 0 ]
    ELSE [ raises |-> FALSE, turns |-> Len(v) ]

\* line 173: the command line has been parsed; lines 20-25: the logger
InitEcho ==
    /\ maxpdu = 0
    /\ message = NoMessage
    /\ wire = <<>>
    /\ queue = <<>>
    /\ closed = FALSE
    /\ pc = "idle"
    /\ primitive = NoPrimitive
    /\ dimse_msg = Unbound
    /\ pdatas = <<>>
    /\ ii = 0
    /\ Wait = FALSE
    /\ Timeout = None
    /\ elapsed = 0
    /\ ret = NoReturn
    /\ retLine = 0
    /\ handed = <<>>
    /\ deq = <<>>
    /\ fed = <<>>
    /\ inflight = <<>>
    /\ args \in CommandLines
    /\ level = "ERROR"
    /\ handlers = <<"stream">>
    /\ assoc = NoAssociation
    /\ line = 175
    /\ callLog = <<>>
    /\ raised = None

\* lines 175-198: the logger's handlers and level follow the output options
SetupLogging ==
    /\ line = 175
    /\ handlers' = IF args.quiet THEN <<"null">> ELSE handlers
    /\ level' = IF args.debug THEN "DEBUG" ELSE IF args.verbose THEN "INFO" ELSE level
    /\ line' = 200
    /\ UNCHANGED << args, assoc, callLog, raised >>
    /\ UNCHANGED provider

\* lines 200-216: create the AE and request the association; the peer
\* accepts it or not
RequestAssociation(established) ==
    /\ line = 200
    /\ assoc' = [ Established |-> established ]
    /\ line' = 218
    /\ UNCHANGED << args, level, handlers, callLog, raised >>
    /\ UNCHANGED provider

\* lines 218-227: with the association established, loop over args.repeat
\* sending C-ECHO, then abort or release; an exception ends the script
IfEstablished ==
    /\ line = 218
    /\ IF assoc.Established
       THEN LET loop == ForLoopOver(args.repeat)
            IN IF loop.raises
               THEN /\ raised' = Some("TypeError")
                    /\ line' = 0
                    /\ UNCHANGED callLog
               ELSE /\ callLog' = callLog \o [ k \in 1..loop.turns |-> "send_c_echo" ]
                                      \o << IF args.abort THEN "Abort" ELSE "Release" >>
                    /\ line' = 230
                    /\ UNCHANGED raised
       ELSE /\ line' = 230
            /\ UNCHANGED << callLog, raised >>
    /\ UNCHANGED << args, level, handlers, assoc >>
    /\ UNCHANGED provider

\* line 230: ae.Quit(), and the script ends
Quit ==
    /\ line = 230
    /\ callLog' = Append(callLog, "Quit")
    /\ line' = 0
    /\ UNCHANGED << args, level, handlers, assoc, raised >>
    /\ UNCHANGED provider

NextEcho ==
    \/ SetupLogging
    \/ \E e \in BOOLEAN : RequestAssociation(e)
    \/ IfEstablished
    \/ Quit

SpecEcho == InitEcho /\ [][NextEcho]_vars

(* ------------------------------ properties ----------------------------- *)

\* the ten DIMSE message types
MessageTypes == { TypeOf(c, r) : c \in SupportedClasses, r \in BOOLEAN }

\* a Send call that selected a message type is under way or has returned
Sending == pc = "send" \/ (pc = "ret" /\ retLine = 60)

\* the fragments a call <<primitive, id>> of Send is to hand off
EncodeCall(c) ==
    LET type == TypeOf(c[1].cls, c[1].MessageID # None)
    IN Encode(FromParams(type, c[1]), c[2], maxpdu)

\* the fragments of a sequence of calls, call after call
RECURSIVE EncodeCalls(_)
EncodeCalls(calls) ==
    IF calls = <<>> THEN <<>>
    ELSE EncodeCall(Head(calls)) \o EncodeCalls(Tail(calls))

IsPData(p) == p.cls = "P_DATA"

\* every P-DATA primitive handed to DUL.Send since the oldest message in
\* flight, in the order of their travel: reassembled, queued, on the wire
Stream == fed \o SelectSeq(queue, IsPData) \o wire

\* C7: for a primitive of one of the five supported kinds Send selects the
\* message type of the same kind, the RQ variant iff MessageID is not None and
\* the RSP variant otherwise: one of the ten message types per call.
C7_SelectsKindAndRole ==
    (Sending /\ primitive.cls \in SupportedClasses) =>
        /\ dimse_msg \in MessageTypes
        /\ dimse_msg[1] = primitive.cls
        /\ (dimse_msg[2] = "RQ") <=> (primitive.MessageID # None)
        /\ (dimse_msg[2] = "RSP") <=> (primitive.MessageID = None)

\* C7 witness: a C-GET response primitive (MessageID None) has been sent
C7_Witness ==
    /\ pc = "ret" /\ retLine = 60
    /\ primitive.cls = "C_GET" /\ primitive.MessageID = None
    /\ dimse_msg = <<"C_GET", "RSP">>

\* C8: Send hands the P-DATA primitives of the encoded message to DUL.Send
\* once each and in the encoder's order, returns only after the last one, and
\* the fragments of an earlier Send all precede those of a later Send.
C8_HandsOffInOrder ==
    /\ Sending =>
          /\ pdatas = EncodeCall(inflight[Len(inflight)])
          /\ handed = SubSeq(pdatas, 1, ii)
    /\ (pc = "ret" /\ retLine = 60) => handed = pdatas
    /\ Stream = IF pc = "send"
                THEN EncodeCalls(SubSeq(inflight, 1, Len(inflight) - 1)) \o handed
                ELSE EncodeCalls(inflight)

\* C8 witness: the second of two multi-fragment messages has been handed off
\* behind the first one
C8_Witness ==
    /\ pc = "ret" /\ retLine = 60
    /\ Len(inflight) = 2
    /\ Len(handed) >= 3
    /\ Len(Stream) > Len(handed)

\* C9: Send with a primitive of an unsupported class raises; DUL.Send is not
\* called and the reassembly state is as before the call.
C9_UnsupportedRaises ==
    /\ [](  (pc \in {"send", "ret"} /\ primitive.cls \in OtherClasses)
            => (pc = "ret" /\ ret = Raises /\ handed = <<>>) )
    /\ [][ (pc = "idle" /\ primitive'.cls \in OtherClasses)
            => UNCHANGED << message, fed, wire, queue, inflight >> ]_vars

\* C9 witness: Send raised while an inbound message was partly assembled
C9_Witness ==
    /\ pc = "ret" /\ ret = Raises /\ retLine = 52
    /\ primitive.cls \in OtherClasses
    /\ message.alloc /\ message.EncodedCommandSet # <<>>

\* the buffer one uninterrupted Receive builds from a sequence of fragments
RECURSIVE Assemble(_)
Assemble(frags) ==
    IF frags = <<>> THEN DIMSEMessage
    ELSE Decode(Assemble(SubSeq(frags, 1, Len(frags) - 1)), frags[Len(frags)]).msg

\* the call returned because the next primitive was not P-DATA
ReturnedNotPData == pc = "ret" /\ retLine \in {76, 86}

\* the call returned a message
ReturnedMessage == pc = "ret" /\ ret.kind = "result"

\* C1: Receive(Wait=True, Timeout=T) with finite T does not go on looping
\* once the timeout has elapsed: it has returned (None, None) by then.
C1_ReturnsOnTimeout ==
    (pc \in {"peek", "recv"} /\ Wait /\ Timeout # None) => elapsed <= Timeout[1]

\* C2: Receive returns a message only in the call whose P-DATA primitive
\* completes the assembly; it returns (ToParams(), ID) of the assembled
\* message and leaves self.message None.
C2_ReturnsOnCompletion ==
    /\ ReturnedMessage =>
          /\ retLine \in {81, 91}
          /\ message = NoMessage
          /\ deq # <<>> /\ fed # <<>>
          /\ IsPData(deq[Len(deq)]) /\ deq[Len(deq)] = fed[Len(fed)]
          /\ IsComplete(Assemble(fed))
          /\ ~IsComplete(Assemble(SubSeq(fed, 1, Len(fed) - 1)))
          /\ ret = Result(ToParams(Assemble(fed)), fed[Len(fed)].id)
    /\ (pc = "ret" /\ retLine \in {76, 86, 93}) =>
          /\ ret = NoneNone
          /\ ~IsComplete(Assemble(fed))
    /\ (pc = "idle" /\ ~message.alloc) => fed = <<>>

\* C2 witness: a message with a data set, received on context 3, is returned
C2_Witness ==
    /\ ReturnedMessage
    /\ ret.id = 3 /\ ret.params.DataSet # None
    /\ message = NoMessage

\* C3: when the next primitive is not P-DATA, Receive returns (None, None)
\* and the assembly buffer holds no fragment of the interrupted message.
C3_ReassemblyAborted ==
    ReturnedNotPData =>
        /\ ret = NoneNone
        /\ message.EncodedCommandSet = <<>> /\ message.EncodedDataSet = <<>>

C5_ResumesAcrossCalls ==
    /\ [](message.alloc => message = Assemble(fed))
    /\ [](ReturnedMessage => ret = Completed(Assemble(fed)))
    /\ [][ (pc = "ret" /\ ret = NoneNone) => (message' = message /\ fed' = fed) ]_vars
    /\ [][ (pc = "idle" /\ pc' = "peek" /\ message.alloc) => message' = message ]_vars

\* C5 witness: a message is returned by a Receive(Wait=False), which takes
\* one primitive per call, from three fragments or more
C5_Witness ==
    /\ ReturnedMessage /\ ~Wait
    /\ Len(fed) >= 3 /\ Len(deq) = 1

\* C6: with partial data in the buffer, the outcome of a Receive that meets
\* a release or abort differs from (None, None), the outcome with an empty
\* buffer.
C6_PartialDataReported ==
    (ReturnedNotPData /\ fed # <<>>) => ret # NoneNone

\* C10: over the order-preserving DUL, Receive returns the messages given to
\* Send, each once and in order, with the same content and context ID, and
\* when every fragment has been taken nothing is pending.
C10_EndToEnd ==
    /\ ReturnedMessage =>
          /\ inflight # <<>>
          /\ ret = Result(inflight[1][1], inflight[1][2])
    /\ (pc = "idle" /\ wire = <<>> /\ queue = <<>>) =>
          /\ inflight = <<>>
          /\ fed = <<>>
          /\ message.EncodedCommandSet = <<>> /\ message.EncodedDataSet = <<>>

\* C10 witness: a fragmented store request is returned while the next
\* message is in flight behind it
C10_Witness ==
    /\ ReturnedMessage
    /\ maxpdu = 2 /\ ret.params.cls = "C_STORE" /\ ret.params.DataSet # None
    /\ Len(inflight) = 2

\* a Receive(Wait=False) call is under way or has just returned
Polling == (pc \in {"peek", "recv"} /\ ~Wait) \/ (pc = "ret" /\ retLine \in {86, 91, 93})

\* C11: Receive(Wait=False) does not loop: one Peek, at most one dequeue,
\* then it returns; when no primitive is ready it returns (None, None), takes
\* nothing from the DUL queue and leaves the accumulated fragments as they were.
C11_PollsOnce ==
    /\ [](Polling => Len(deq) <= 1)
    /\ []((Polling /\ pc = "peek") => deq = <<>>)
    /\ []((pc = "ret" /\ retLine \in {91, 93}) => Len(deq) = 1)
    /\ []((pc = "ret" /\ retLine = 86) => deq = <<>>)
    /\ [][ (Polling /\ pc = "peek" /\ pc' # "peek") => pc' \in {"recv", "ret"} ]_vars
    /\ [][ (Polling /\ pc = "recv" /\ pc' # "recv") => pc' = "ret" ]_vars
    /\ [][ (Polling /\ pc = "recv" /\ pc' # "recv" /\ queue = <<>>)
             => /\ ret' = NoneNone /\ retLine' = 93
                /\ deq' = <<NonePrimitive>>
                /\ UNCHANGED << queue, message, fed >> ]_vars

\* C11 witness: with a fragment accumulated and nothing ready, Receive(Wait=False)
\* has returned (None, None) from line 93
C11_Witness ==
    /\ pc = "ret" /\ retLine = 93 /\ ret = NoneNone
    /\ deq = <<NonePrimitive>>
    /\ queue = <<>>
    /\ message.alloc /\ message.EncodedCommandSet # <<>>

\* C12: Receive never returns a completed message built from fragments that
\* reached it in another order than the order of their transmission.
C12_NoFalseCompletion ==
    ReturnedMessage => (inflight # <<>> /\ fed = EncodeCall(inflight[1]))

\* C13: whatever the DUL queues between the caller's Peek and its DUL.Receive,
\* every primitive Receive takes from the DUL and passes to Decode is P-DATA:
\* never a release, an abort or the empty (None) result, on either path.
C13_OnlyPDataDecoded ==
    \A k \in 1..Len(deq) : IsPData(deq[k])

\* the P-DATA primitives queued in the DUL, in queue order
QueuedPData == SelectSeq(queue, IsPData)

\* C14: each primitive leaves the DUL queue from its head, one per step, and if
\* P-DATA is appended once to the fragments fed to the buffer; the fragments fed
\* change in no other way while a message is assembled; a Receive that returns
\* a completed message has taken its last fragment as the last primitive and
\* nothing more: the fragments of the later messages are still pending, in the
\* order of their transmission.
C14_FedOnceInOrder ==
    /\ [][ queue' # queue =>
             \/ /\ Len(queue') = Len(queue) + 1
                /\ SubSeq(queue', 1, Len(queue)) = queue
                /\ UNCHANGED << fed, deq >>
             \/ /\ queue # <<>> /\ queue' = Tail(queue)
                /\ deq' = Append(deq, Head(queue))
                /\ fed' = IF IsPData(Head(queue)) THEN Append(fed, Head(queue)) ELSE fed ]_vars
    /\ [][ fed' # fed =>
             \/ (queue # <<>> /\ queue' = Tail(queue) /\ fed' = Append(fed, Head(queue)))
             \/ (pc = "ret" /\ ~message.alloc /\ fed' = <<>>) ]_vars
    /\ [](ReturnedMessage =>
             /\ deq # <<>> /\ fed # <<>>
             /\ deq[Len(deq)] = fed[Len(fed)]
             /\ Len(deq) <= Len(fed)
             /\ \A k \in 1..Len(deq) : deq[k] = fed[Len(fed) - Len(deq) + k]
             /\ inflight # <<>>
             /\ QueuedPData \o wire = EncodeCalls(Tail(inflight)))

\* C14 witness: a completed message assembled over two Receive calls has been
\* returned while fragments of the next message wait in the DUL queue
C14_Witness ==
    /\ ReturnedMessage
    /\ Len(deq) < Len(fed)
    /\ QueuedPData # <<>>
    /\ Len(inflight) = 2

\* a step of Send: the call itself (lines 24-56) or a turn of its loop
SendSteps ==
    \/ pc = "idle" /\ pc' = "send"
    \/ pc = "idle" /\ pc' = "ret" /\ retLine' = 52
    \/ pc = "send" /\ ii' = ii + 1

\* C15: no step of Send changes self.message or the fragments accumulated in
\* it, nor takes anything from the DUL queue; from the call to its return the
\* buffer stays as it was and the queue only grows, by what the DUL reads.
C15_SendLeavesAssembly ==
    /\ [][ SendSteps => UNCHANGED << message, fed, queue, deq >> ]_vars
    /\ [][ (pc = "send" \/ pc' = "send") =>
             /\ UNCHANGED << message, fed >>
             /\ Len(queue') >= Len(queue)
             /\ SubSeq(queue', 1, Len(queue)) = queue ]_vars
    /\ [](Sending => deq = <<>>)

\* C15 witness: Send has returned while a message is partly assembled and
\* primitives wait in the DUL queue
C15_Witness ==
    /\ pc = "ret" /\ retLine = 60
    /\ message.alloc /\ message.EncodedCommandSet # <<>>
    /\ fed # <<>>
    /\ queue # <<>>

\* the echoscu script has run to its end, or an exception has ended it
ScriptEnded == line = 0 /\ (callLog # <<>> \/ raised # None)

\* C16: when echoscu ends, with the association established and --repeat
\* given it has sent C-ECHO that many times, then ended the association once,
\* by Abort if --abort was given and by Release otherwise, then called
\* ae.Quit(); with the association not established it has only called ae.Quit().
C16_EchoesThenEndsThenQuits ==
    /\ (ScriptEnded /\ assoc.Established /\ args.repeat # None) =>
          /\ Len(callLog) = args.repeat[1] + 2
          /\ \A k \in 1..args.repeat[1] : callLog[k] = "send_c_echo"
          /\ callLog[Len(callLog) - 1] = (IF args.abort THEN "Abort" ELSE "Release")
          /\ callLog[Len(callLog)] = "Quit"
    /\ (ScriptEnded /\ ~assoc.Established) => callLog = <<"Quit">>

====
